---- MODULE Spec2Model ----
(***************************************************************************)
(* The Flask application of day-04-dockerfile-basics/Project-2/app.py:     *)
(* two routes, "/" (home) and "/health" (health), served by app.run on     *)
(* 0.0.0.0:5000 with debug=True.  The host's name and wall clock are the   *)
(* environment the root handler reads.                                     *)
(***************************************************************************)
EXTENDS Integers, Sequences, FiniteSets, TLC

VARIABLES state, listener, url_map, hostname, clock, req, hist

vars == <<state, listener, url_map, hostname, clock, req, hist>>

(* ------------------------------ bounds --------------------------------- *)

\* The wall clock is followed over the seconds 0..MaxSec.
MaxSec == 1

\* Requests the threaded development server handles at the same time.
NumWorkers == 2

Workers == 1..NumWorkers

\* Microsecond readings of datetime.now() that are told apart.
Micros == {0, 500000}

\* Names the host can carry (sethostname accepts the empty name).
HostNames == {"", "web-1", "web-2"}

Methods == {"GET", "HEAD", "OPTIONS", "POST", "DELETE"}

Paths == {"/", "/health", "/health/", "/nonexistent"}

Times == [sec : 0..MaxSec, us : Micros]

(* --------------------------- the application --------------------------- *)

\* app.run(host='0.0.0.0', port=5000, debug=True)
host == "0.0.0.0"

port == 5000

debug == TRUE

NoListener == [host |-> "", port |-> 0]

\* Variant: a rule registered for every method.
route_any_method(rule, endpoint) ==
    [rule |-> rule, endpoint |-> endpoint, methods |-> Methods]

\* @app.route(rule) with no methods argument: GET, and the HEAD and OPTIONS
\* the framework adds to it.
route(rule, endpoint) ==
    [rule |-> rule, endpoint |-> endpoint, methods |-> {"GET", "HEAD", "OPTIONS"}]

\* The rules registered when the module has been imported.
Routes == {route("/", "home"), route("/health", "health")}

\* Variant: a trailing slash is ignored when matching.
match_lenient(m, p) ==
    LET q  == IF p = "/health/" THEN "/health" ELSE p
        rs == {r \in url_map : r.rule = q}
    IN  IF rs = {} THEN "NotFound"
        ELSE IF \E r \in rs : m \in r.methods
             THEN (CHOOSE r \in rs : m \in r.methods).endpoint
             ELSE "MethodNotAllowed"

\* URL matching: exact rule, then the rule's methods.
match(m, p) ==
    LET rs == {r \in url_map : r.rule = p}
    IN  IF rs = {} THEN "NotFound"
        ELSE IF \E r \in rs : m \in r.methods
             THEN (CHOOSE r \in rs : m \in r.methods).endpoint
             ELSE "MethodNotAllowed"

EmptyBody == [k \in {} |-> ""]

NoResp == [status |-> 0, ctype |-> "", body |-> EmptyBody]

Page(title) == [page |-> title]

\* A response to HEAD carries the status and headers of the GET response
\* and no body.
for_method(m, r) == IF m = "HEAD" THEN [r EXCEPT !.body = EmptyBody] ELSE r

\* Variant: only the fraction is rendered.
isoformat_fraction_only(t) == <<t.us>>

\* datetime.isoformat(): seconds, and the fraction only when it is not zero.
isoformat(t) == IF t.us = 0 THEN <<t.sec>> ELSE <<t.sec, t.us>>

\* datetime.fromisoformat(): the instant a rendered timestamp denotes.
fromisoformat(s) == [sec |-> s[1], us |-> IF Len(s) > 1 THEN s[2] ELSE 0]

Earlier(a, b) == a.sec < b.sec \/ (a.sec = b.sec /\ a.us < b.us)

\* jsonify({...}) -> 200 application/json
jsonify(obj) == [status |-> 200, ctype |-> "application/json", body |-> obj]

\* Variant: the greeting is spelled differently.
home_body_typo(container, now) ==
    [message |-> "Hello from Flask!",
     container |-> container,
     timestamp |-> isoformat(now)]

\* The dictionary home() returns.
home_body(container, now) ==
    [message |-> "Hello from Dockerized Flask!",
     container |-> container,
     timestamp |-> isoformat(now)]

\* Variant: a second key in the health payload.
health_body_verbose == [status |-> "healthy", checks |-> "none"]

\* The dictionary health() returns.
health_body == [status |-> "healthy"]

\* The framework's pages for routing errors.
http_exception(e) ==
    IF e = "NotFound"
    THEN [status |-> 404, ctype |-> "text/html", body |-> Page("Not Found")]
    ELSE [status |-> 405, ctype |-> "text/html", body |-> Page("Method Not Allowed")]

\* The automatic answer to OPTIONS on a registered rule.
options_response == [status |-> 200, ctype |-> "text/html", body |-> EmptyBody]

\* An exception leaving a view: with debug on it is propagated to the
\* debugger middleware, which answers with its traceback page; with debug
\* off the framework answers with its generic page.
error_page ==
    [status |-> 500, ctype |-> "text/html",
     body |-> IF debug THEN Page("Traceback") ELSE Page("Internal Server Error")]

NoTime == [sec |-> 0, us |-> 0]

Idle ==
    [pc |-> "idle", method |-> "", path |-> "", ran |-> "", exc |-> "",
     container |-> "", seen_host |-> "", seen_now |-> NoTime, resp |-> NoResp]

NoLast == [valid |-> FALSE, container |-> "", ts |-> <<0>>]

NoHist ==
    [last |-> NoLast, renamed |-> FALSE, setback |-> FALSE,
     cur_renamed |-> FALSE, cur_setback |-> FALSE, prev_renamed |-> FALSE,
     faulted |-> FALSE]

Init ==
    /\ state = "created"
    /\ listener = NoListener
    /\ url_map = Routes
    /\ hostname \in HostNames
    /\ clock \in Times
    /\ req = [i \in Workers |-> Idle]
    /\ hist = NoHist

(* ----------------------- process life cycle --------------------------- *)

\* app.run binds the listener and starts serving.
run ==
    /\ state = "created"
    /\ state' = "serving"
    /\ listener' = [host |-> host, port |-> port]
    /\ UNCHANGED <<url_map, hostname, clock, req>>

\* app.run cannot bind (the port is taken): the process ends.
run_bind_fails ==
    /\ state = "created"
    /\ state' = "bind_failed"
    /\ UNCHANGED <<listener, url_map, hostname, clock, req>>

\* A signal ends the process and whatever it was handling.
terminate ==
    /\ state = "serving"
    /\ state' = "terminated"
    /\ listener' = NoListener
    /\ req' = [i \in Workers |-> Idle]
    /\ UNCHANGED <<url_map, hostname, clock>>

(* --------------------------- the environment --------------------------- *)

sethostname(h) ==
    /\ state = "serving"
    /\ h # hostname
    /\ hostname' = h
    /\ UNCHANGED <<state, listener, url_map, clock, req>>

\* Time passes.
clock_advance(t) ==
    /\ state = "serving"
    /\ Earlier(clock, t)
    /\ clock' = t
    /\ UNCHANGED <<state, listener, url_map, hostname, req>>

\* The wall clock is set back (clock adjustment, end of daylight saving:
\* datetime.now() is naive local time).
clock_set_back(t) ==
    /\ state = "serving"
    /\ Earlier(t, clock)
    /\ clock' = t
    /\ UNCHANGED <<state, listener, url_map, hostname, req>>

(* ------------------------- handling a request -------------------------- *)

Server == <<state, listener, url_map>>

respond(i, r) ==
    req' = [req EXCEPT ![i].pc = "done", ![i].resp = for_method(req[i].method, r)]

\* A worker takes a request off the listener.
accept(i, m, p) ==
    /\ state = "serving"
    /\ req[i].pc = "idle"
    /\ req' = [req EXCEPT ![i].pc = "accepted", ![i].method = m, ![i].path = p]
    /\ UNCHANGED <<Server, hostname, clock>>

\* No rule matches the path, or the rule does not take the method.
dispatch_error(i) ==
    /\ req[i].pc = "accepted"
    /\ match(req[i].method, req[i].path) \in {"NotFound", "MethodNotAllowed"}
    /\ respond(i, http_exception(match(req[i].method, req[i].path)))
    /\ UNCHANGED <<Server, hostname, clock>>

\* OPTIONS on a registered rule is answered without calling the view.
dispatch_options(i) ==
    /\ req[i].pc = "accepted"
    /\ match(req[i].method, req[i].path) \in {"home", "health"}
    /\ req[i].method = "OPTIONS"
    /\ respond(i, options_response)
    /\ UNCHANGED <<Server, hostname, clock>>

\* Variant: the view registers a rule while it handles the request.
health_registers(i) ==
    /\ req[i].pc = "accepted"
    /\ match(req[i].method, req[i].path) = "health"
    /\ req[i].method # "OPTIONS"
    /\ req' = [req EXCEPT ![i].pc = "done", ![i].ran = "health",
                          ![i].resp = for_method(req[i].method, jsonify(health_body))]
    /\ url_map' = url_map \cup {route("/healthz", "health")}
    /\ UNCHANGED <<state, listener, hostname, clock>>

\* def health(): return jsonify({'status': 'healthy'})
health(i) ==
    /\ req[i].pc = "accepted"
    /\ match(req[i].method, req[i].path) = "health"
    /\ req[i].method # "OPTIONS"
    /\ req' = [req EXCEPT ![i].pc = "done", ![i].ran = "health",
                          ![i].resp = for_method(req[i].method, jsonify(health_body))]
    /\ UNCHANGED <<Server, hostname, clock>>

\* Variant: the name is looked up again when the response is built.
home_container_late(i) == hostname

\* The value home() puts under 'container': the name it read itself.
home_container(i) == req[i].container

\* Variant: the name read is kept in a module-level global the views share.
home_gethostname_shared(i) ==
    /\ req[i].pc = "accepted"
    /\ match(req[i].method, req[i].path) = "home"
    /\ req[i].method # "OPTIONS"
    /\ req' = [j \in Workers |->
                 IF j = i
                 THEN [req[i] EXCEPT !.pc = "home", !.ran = "home",
                                     !.container = hostname, !.seen_host = hostname]
                 ELSE IF req[j].pc = "home"
                      THEN [req[j] EXCEPT !.container = hostname]
                      ELSE req[j]]
    /\ UNCHANGED <<Server, hostname, clock>>

\* home(), up to 'container': socket.gethostname() returns the host's name.
home_gethostname(i) ==
    /\ req[i].pc = "accepted"
    /\ match(req[i].method, req[i].path) = "home"
    /\ req[i].method # "OPTIONS"
    /\ req' = [req EXCEPT ![i].pc = "home", ![i].ran = "home",
                          ![i].container = hostname, ![i].seen_host = hostname]
    /\ UNCHANGED <<Server, hostname, clock>>

\* Variant: the exception is swallowed and the fields at hand are returned.
handle_exception_partial(i) ==
    /\ req' = [req EXCEPT ![i].pc = "done", ![i].ran = "home",
                          ![i].exc = "OSError",
                          ![i].resp = for_method(req[i].method,
                              jsonify([message |-> "Hello from Dockerized Flask!"]))]
    /\ UNCHANGED <<Server, hostname, clock>>

\* Variant: the exception ends the serving process.
handle_exception_exits(i) ==
    /\ req' = [j \in Workers |-> Idle]
    /\ state' = "crashed"
    /\ UNCHANGED <<listener, url_map, hostname, clock>>

\* The exception leaves the view and the request is answered with the
\* error page; the body sent for HEAD is not determined.
handle_exception(i) ==
    /\ \E b \in {error_page.body} \cup
                (IF req[i].method = "HEAD" THEN {EmptyBody} ELSE {}) :
          req' = [req EXCEPT ![i].pc = "done", ![i].ran = "home",
                             ![i].exc = "OSError",
                             ![i].resp = [error_page EXCEPT !.body = b]]
    /\ UNCHANGED <<Server, hostname, clock>>

\* home(), up to 'container': socket.gethostname() raises.
home_gethostname_fails(i) ==
    /\ req[i].pc = "accepted"
    /\ match(req[i].method, req[i].path) = "home"
    /\ req[i].method # "OPTIONS"
    /\ handle_exception(i)

\* home(), 'timestamp' and the return: datetime.datetime.now().isoformat(),
\* then jsonify of the dictionary.
home_now(i) ==
    /\ req[i].pc = "home"
    /\ req' = [req EXCEPT ![i].pc = "done", ![i].seen_now = clock,
                          ![i].resp = for_method(req[i].method,
                                          jsonify(home_body(home_container(i), clock)))]
    /\ UNCHANGED <<Server, hostname, clock>>

\* The response has been sent; the worker is free again.
send(i) ==
    /\ req[i].pc = "done"
    /\ req' = [req EXCEPT ![i] = Idle]
    /\ UNCHANGED <<Server, hostname, clock>>

\* A 200 response to GET / that carries the greeting.
IsGreeting(r) ==
    /\ r.pc = "done" /\ r.method = "GET" /\ r.path = "/"
    /\ r.resp.status = 200

(* ---------- one request at a time, with the responses observed ---------- *)

\* The worker that serves when requests come one after the other.
W1 == CHOOSE w \in Workers : \A v \in Workers : w <= v

Start == run /\ UNCHANGED hist

BindFails == run_bind_fails /\ UNCHANGED hist

Terminate == terminate /\ UNCHANGED hist

SetHostname ==
    /\ \E h \in HostNames : sethostname(h)
    /\ hist' = [hist EXCEPT !.renamed = hist.last.valid,
                            !.cur_renamed = req[W1].pc = "home" \/ IsGreeting(req[W1])]

Tick == (\E t \in Times : clock_advance(t)) /\ UNCHANGED hist

SetBack ==
    /\ \E t \in Times : clock_set_back(t)
    /\ hist' = [hist EXCEPT !.setback = hist.last.valid,
                            !.cur_setback = IsGreeting(req[W1])]

Accept == (\E m \in Methods, p \in Paths : accept(W1, m, p)) /\ UNCHANGED hist

DispatchError == dispatch_error(W1) /\ UNCHANGED hist

DispatchOptions == dispatch_options(W1) /\ UNCHANGED hist

Health == health(W1) /\ UNCHANGED hist

HomeGetHostname ==
    /\ home_gethostname(W1)
    /\ hist' = [hist EXCEPT !.cur_renamed = FALSE, !.prev_renamed = hist.renamed]

HomeGetHostnameFails ==
    /\ home_gethostname_fails(W1)
    /\ hist' = [hist EXCEPT !.faulted = TRUE]

HomeNow ==
    /\ home_now(W1)
    /\ hist' = [hist EXCEPT !.cur_setback = FALSE]

Send ==
    /\ send(W1)
    /\ hist' = IF IsGreeting(req[W1])
               THEN [hist EXCEPT !.last = [valid |-> TRUE,
                                           container |-> req[W1].resp.body.container,
                                           ts |-> req[W1].resp.body.timestamp],
                                 !.renamed = hist.cur_renamed,
                                 !.setback = hist.cur_setback,
                                 !.cur_renamed = FALSE, !.cur_setback = FALSE,
                                 !.prev_renamed = FALSE]
               ELSE [hist EXCEPT !.cur_renamed = FALSE, !.cur_setback = FALSE,
                                 !.prev_renamed = FALSE]

Next ==
    \/ Start \/ BindFails \/ Terminate
    \/ SetHostname \/ Tick \/ SetBack
    \/ Accept \/ DispatchError \/ DispatchOptions \/ Health
    \/ HomeGetHostname \/ HomeGetHostnameFails \/ HomeNow \/ Send

Spec == Init /\ [][Next]_vars

(* ------------------- the threaded development server ------------------- *)

\* The interleavings of the workers are followed at one reading of the
\* clock; what the clock does to the responses is followed in Spec.
InitThreaded == Init /\ clock = NoTime

TStart == run /\ UNCHANGED hist

TBindFails == run_bind_fails /\ UNCHANGED hist

TTerminate == terminate /\ UNCHANGED hist

TSetHostname == (\E h \in HostNames : sethostname(h)) /\ UNCHANGED hist

TAccept ==
    (\E i \in Workers, m \in Methods, p \in Paths : accept(i, m, p)) /\ UNCHANGED hist

TDispatchError == (\E i \in Workers : dispatch_error(i)) /\ UNCHANGED hist

TDispatchOptions == (\E i \in Workers : dispatch_options(i)) /\ UNCHANGED hist

THealth == (\E i \in Workers : health(i)) /\ UNCHANGED hist

THomeGetHostname == (\E i \in Workers : home_gethostname(i)) /\ UNCHANGED hist

THomeGetHostnameFails == (\E i \in Workers : home_gethostname_fails(i)) /\ UNCHANGED hist

THomeNow == (\E i \in Workers : home_now(i)) /\ UNCHANGED hist

TSend == (\E i \in Workers : send(i)) /\ UNCHANGED hist

NextThreaded ==
    \/ TStart \/ TBindFails \/ TTerminate
    \/ TSetHostname
    \/ TAccept \/ TDispatchError \/ TDispatchOptions \/ THealth
    \/ THomeGetHostname \/ THomeGetHostnameFails \/ THomeNow \/ TSend

SpecThreaded == InitThreaded /\ [][NextThreaded]_vars

(* ------------------------------ properties ----------------------------- *)

Done(i) == req[i].pc = "done"

JsonEq(a, b) == DOMAIN a = DOMAIN b /\ \A k \in DOMAIN a : a[k] = b[k]

GreetingKeys == {"message", "container", "timestamp"}

IsHealthy(r) ==
    /\ r.resp.status = 200
    /\ r.resp.ctype = "application/json"
    /\ JsonEq(r.resp.body, [status |-> "healthy"])

\* C1, as stated: every request to "/" is answered 200 with a JSON object
\* that holds message, container and timestamp, each non-empty, message
\* being "Hello from Dockerized Flask!".
C1_EveryRootRequest ==
    \A i \in Workers :
        Done(i) /\ req[i].path = "/" =>
            /\ req[i].resp.status = 200
            /\ GreetingKeys \subseteq DOMAIN req[i].resp.body
            /\ req[i].resp.body.message = "Hello from Dockerized Flask!"
            /\ req[i].resp.body.container # ""
            /\ Len(req[i].resp.body.timestamp) > 0

\* C1, amended: every GET request to "/" whose view does not raise is
\* answered 200 with a JSON object of exactly the keys message, container
\* and timestamp; message is "Hello from Dockerized Flask!", timestamp is
\* non-empty, and container is the host's name as that request read it,
\* so non-empty whenever the host's name is.
C1_GetRootServed ==
    \A i \in Workers :
        Done(i) /\ req[i].path = "/" /\ req[i].method = "GET" /\ req[i].exc = "" =>
            /\ req[i].resp.status = 200
            /\ req[i].resp.ctype = "application/json"
            /\ DOMAIN req[i].resp.body = GreetingKeys
            /\ req[i].resp.body.message = "Hello from Dockerized Flask!"
            /\ Len(req[i].resp.body.timestamp) > 0
            /\ req[i].resp.body.container = req[i].seen_host
            /\ (req[i].seen_host # "" => req[i].resp.body.container # "")

C1_Witness ==
    \E i \in Workers :
        /\ Done(i) /\ req[i].path = "/" /\ req[i].method = "GET" /\ req[i].exc = ""
        /\ req[i].resp.status = 200
        /\ req[i].resp.body.container = "web-1"
        /\ Len(req[i].resp.body.timestamp) = 2

\* C2, as stated: every request to "/health" is answered 200 with exactly
\* {"status": "healthy"}.
C2_EveryHealthRequest ==
    \A i \in Workers :
        Done(i) /\ req[i].path = "/health" => IsHealthy(req[i])

\* C2, amended: every GET request to "/health", in every reachable state of
\* the server and whatever the other workers are handling, is answered 200
\* with exactly {"status": "healthy"}.
C2_GetHealthServed ==
    \A i \in Workers :
        Done(i) /\ req[i].path = "/health" /\ req[i].method = "GET" =>
            IsHealthy(req[i])

C2_Witness ==
    \E i, j \in Workers :
        /\ i # j
        /\ Done(i) /\ req[i].path = "/health" /\ req[i].method = "GET"
        /\ IsHealthy(req[i])
        /\ Done(j) /\ req[j].resp.status = 500

\* C3, as stated: the timestamp of a response to "/" is never earlier than
\* the timestamp of the response to "/" returned before the request was
\* issued.
C3_TimestampNonDecreasing ==
    IsGreeting(req[W1]) /\ hist.last.valid =>
        ~Earlier(fromisoformat(req[W1].resp.body.timestamp),
                 fromisoformat(hist.last.ts))

\* C3, amended: the timestamp of a response to "/" is never earlier than
\* the timestamp of the response to "/" returned before the request was
\* issued, provided the wall clock has not been set back since the earlier
\* response read it.
C3_NonDecreasingUnlessSetBack ==
    IsGreeting(req[W1]) /\ hist.last.valid /\ ~hist.setback =>
        ~Earlier(fromisoformat(req[W1].resp.body.timestamp),
                 fromisoformat(hist.last.ts))

C3_Witness ==
    /\ IsGreeting(req[W1]) /\ hist.last.valid /\ ~hist.setback
    /\ Earlier(fromisoformat(hist.last.ts),
               fromisoformat(req[W1].resp.body.timestamp))
    /\ Len(hist.last.ts) = 2
    /\ Len(req[W1].resp.body.timestamp) = 1

\* C4, as stated: any two responses to "/" of one process carry the same
\* container value.
C4_ContainerStable ==
    IsGreeting(req[W1]) /\ hist.last.valid =>
        req[W1].resp.body.container = hist.last.container

\* C4, amended: two responses to "/" of one process carry the same
\* container value provided the host's name was not changed between the
\* two reads of it; the name is read anew at each request.
C4_StableUnlessRenamed ==
    IsGreeting(req[W1]) /\ hist.last.valid /\ ~hist.prev_renamed =>
        req[W1].resp.body.container = hist.last.container

C4_Witness ==
    /\ IsGreeting(req[W1]) /\ hist.last.valid /\ ~hist.prev_renamed
    /\ req[W1].resp.body.container = hist.last.container
    /\ hist.last.container = "web-2"
    /\ hostname # "web-2"

HandlingStep == req' # req /\ ~terminate

served_alone(m, p, h, t) ==
    for_method(m,
        IF p \notin {"/", "/health"}
        THEN [status |-> 404, ctype |-> "text/html", body |-> Page("Not Found")]
        ELSE IF m \notin {"GET", "HEAD", "OPTIONS"}
        THEN [status |-> 405, ctype |-> "text/html",
              body |-> Page("Method Not Allowed")]
        ELSE IF m = "OPTIONS"
        THEN [status |-> 200, ctype |-> "text/html", body |-> EmptyBody]
        ELSE IF p = "/health"
        THEN [status |-> 200, ctype |-> "application/json",
              body |-> [status |-> "healthy"]]
        ELSE [status |-> 200, ctype |-> "application/json",
              body |-> [message |-> "Hello from Dockerized Flask!",
                        container |-> h,
                        timestamp |-> isoformat(t)]])

\* C7: whatever the interleaving of the requests in flight, each request is
\* answered as it would be if handled alone: the same status and constant
\* fields, and for "/" the host's name current at its own read (500 when
\* its own lookup raised).
C7_AnsweredAsIfAlone ==
    \A i \in Workers :
        Done(i) =>
            IF req[i].exc # ""
            THEN req[i].resp.status = 500
            ELSE LET a == served_alone(req[i].method, req[i].path,
                                       req[i].seen_host, req[i].seen_now)
                 IN  /\ req[i].resp.status = a.status
                     /\ req[i].resp.ctype = a.ctype
                     /\ JsonEq(req[i].resp.body, a.body)

C7_Witness ==
    \E i, j \in Workers :
        /\ i # j
        /\ IsGreeting(req[i]) /\ IsGreeting(req[j])
        /\ req[i].resp.body.container # req[j].resp.body.container

\* C8: once started the server listens on 0.0.0.0:5000, and no step other
\* than the external termination takes it out of the serving state,
\* whatever the requests and their outcomes.
C8_ServesUntilTerminated ==
    /\ [](state = "serving" => listener = [host |-> "0.0.0.0", port |-> 5000])
    /\ [][state = "serving" /\ ~terminate => state' = "serving"]_vars

C8_Witness ==
    /\ state = "serving"
    /\ listener = [host |-> "0.0.0.0", port |-> 5000]
    /\ \E i, j \in Workers :
        /\ Done(i) /\ req[i].resp.status = 500
        /\ Done(j) /\ req[j].resp.status = 404

\* C9, as stated: a request whose view raises is answered with the generic
\* 500 page, and later requests to "/health" are still answered 200
\* {"status": "healthy"}.
C9_FaultGetsGeneric500 ==
    /\ \A i \in Workers :
          Done(i) /\ req[i].exc # "" /\ req[i].method = "GET" =>
              /\ req[i].resp.status = 500
              /\ JsonEq(req[i].resp.body, [page |-> "Internal Server Error"])
    /\ \A i \in Workers :
          hist.faulted /\ Done(i) /\ req[i].path = "/health" /\ req[i].method = "GET" =>
              IsHealthy(req[i])

\* C9, amended: a request whose view raises is answered 500, never 200 with
\* fields missing; since the server runs with debug=True the body of that
\* response to GET is the debugger's traceback page, not the generic error
\* page; later GET requests to "/health" are still answered 200
\* {"status": "healthy"}.
C9_FaultGets500 ==
    /\ \A i \in Workers :
          Done(i) /\ req[i].exc # "" =>
              /\ req[i].resp.status = 500
              /\ req[i].resp.ctype = "text/html"
              /\ (req[i].method = "GET" =>
                     JsonEq(req[i].resp.body, [page |-> "Traceback"]))
    /\ \A i \in Workers :
          hist.faulted /\ Done(i) /\ req[i].path = "/health" /\ req[i].method = "GET" =>
              IsHealthy(req[i])

C9_Witness ==
    /\ hist.faulted
    /\ Done(W1) /\ req[W1].path = "/health" /\ req[W1].method = "GET"
    /\ IsHealthy(req[W1])

\* C10: a request to "/" or "/health" with a method other than GET, HEAD or
\* OPTIONS runs no view and is not answered 200: it is answered 405.
C10_OtherMethodsRefused ==
    \A i \in Workers :
        /\ Done(i)
        /\ req[i].path \in {"/", "/health"}
        /\ req[i].method \notin {"GET", "HEAD", "OPTIONS"}
        => req[i].ran = "" /\ req[i].resp.status = 405

C10_Witness ==
    \E i \in Workers :
        /\ Done(i) /\ req[i].path = "/" /\ req[i].method = "POST"
        /\ req[i].resp.status = 405 /\ req[i].ran = ""

====
